---- MODULE Spec2Model ----
(***************************************************************************)
(* Model of src/main.py: the subtitle search aggregator                    *)
(* (search_and_download_subtitles), the enhancement pipeline               *)
(* (enhance_subtitles) and the session handlers of main() with the two     *)
(* session caches (search_cache, enhanced_subtitles).                      *)
(*                                                                         *)
(* A Python str that the program formats, joins or strips is a sequence of *)
(* one-character strings, so that f-strings, '_'.join and str.strip are    *)
(* computed and not assumed; texts it only passes on are atoms.            *)
(* Python None is the empty tuple, an optional value v is <<v>>.           *)
(* A Python dict is a function; the empty dict is the empty function.      *)
(***************************************************************************)
EXTENDS Integers, Sequences, FiniteSets, TLC

VARIABLES
    search_cache,        \* st.session_state.search_cache : cache key -> results
    enhanced_subtitles,  \* st.session_state.enhanced_subtitles : lang -> text
    closure,             \* what the last script run left on screen: the buttons
                         \* it registered and the cells lang / sub of main()
    temp_dirs,           \* directories made by tempfile.mkdtemp still on disk
    aggregated,          \* cache keys search_and_download_subtitles was called for
    api_key,             \* OPENROUTER_API_KEY, read once at import
    pending,             \* arguments drawn for a direct call of one function
    last                 \* what the last operation did (observation only)

vars == <<search_cache, enhanced_subtitles, closure, temp_dirs, aggregated, api_key,
          pending, last>>

----------------------------------------------------------------------------
(* Python values *)

None == <<>>
Some(v) == <<v>>
EmptyDict == <<>>
DictSet(d, k, v) == (k :> v) @@ d
DictDel(d, k) == [x \in (DOMAIN d) \ {k} |-> d[x]]

Range(s) == {s[i] : i \in DOMAIN s}

\* str(n) for a non-negative int
RECURSIVE IntStr(_)
IntStr(n) ==
    LET digit == <<"0", "1", "2", "3", "4", "5", "6", "7", "8", "9">>[(n % 10) + 1]
    IN  IF n < 10 THEN <<digit>> ELSE IntStr(n \div 10) \o <<digit>>

\* sep.join(parts)
RECURSIVE Join(_, _)
Join(sep, parts) ==
    IF parts = <<>> THEN <<>>
    ELSE IF Len(parts) = 1 THEN parts[1]
    ELSE parts[1] \o sep \o Join(sep, Tail(parts))

Whitespace == {" ", "\n", "\t"}

RECURSIVE LStrip(_)
LStrip(s) == IF s # <<>> /\ Head(s) \in Whitespace THEN LStrip(Tail(s)) ELSE s

RECURSIVE RStrip(_)
RStrip(s) ==
    IF s # <<>> /\ s[Len(s)] \in Whitespace THEN RStrip(SubSeq(s, 1, Len(s) - 1)) ELSE s

\* str.strip()
Strip(s) == RStrip(LStrip(s))

\* sequences over S without repetition, of length at most n
RECURSIVE Lists(_, _)
Lists(S, n) ==
    IF n = 0 THEN {<<>>}
    ELSE LET shorter == Lists(S, n - 1)
         IN  shorter \cup {Append(l, x) : l \in shorter, x \in S}

DistinctLists(S, n) ==
    {l \in Lists(S, n) : \A i, j \in DOMAIN l : i # j => l[i] # l[j]}

----------------------------------------------------------------------------
(* Names of the program *)

eng == <<"e", "n", "g">>
fas == <<"f", "a", "s">>
spa == <<"s", "p", "a">>
fra == <<"f", "r", "a">>
deu == <<"d", "e", "u">>
zho == <<"z", "h", "o">>
ara == <<"a", "r", "a">>
ita == <<"i", "t", "a">>      \* a valid ISO 639-3 code that is not in LANGUAGES
zz  == <<"z", "z">>            \* not a language code: Language("zz") raises

LANGUAGES == {eng, fas, spa, fra, deu, zho, ara}
Alpha3 == LANGUAGES \cup {ita}

opensubtitles == <<"o", "p", "e", "n", "s", "u", "b", "t", "i", "t", "l", "e", "s">>
podnapisi == <<"p", "o", "d", "n", "a", "p", "i", "s", "i">>
addic7ed == <<"a", "d", "d", "i", "c", "7", "e", "d">>
available_providers == {opensubtitles, podnapisi, addic7ed}

movie == <<"m", "o", "v", "i", "e">>
episode == <<"e", "p", "i", "s", "o", "d", "e">>

\* babelfish.Language(code): the object, whose alpha3 is the code it was built from
Language(code) == [alpha3 |-> code]

----------------------------------------------------------------------------
(* main(): the cache key of a search, lines 212-214 *)

cache_key_unseparated(title, media_type, year, selected_langs, selected_providers, season, episode_) ==
    LET us == <<"_">>
        base == title \o us \o media_type \o us \o IntStr(year) \o us
                  \o Join(us, selected_langs) \o us \o Join(us, selected_providers)
    IN  IF media_type = episode
        THEN base \o us \o IntStr(season[1]) \o IntStr(episode_[1])
        ELSE base

cache_key(title, media_type, year, selected_langs, selected_providers, season, episode_) ==
    LET us == <<"_">>
        base == title \o us \o media_type \o us \o IntStr(year) \o us
                  \o Join(us, selected_langs) \o us \o Join(us, selected_providers)
    IN  IF media_type = episode
        THEN base \o us \o IntStr(season[1]) \o us \o IntStr(episode_[1])
        ELSE base

----------------------------------------------------------------------------
(* search_and_download_subtitles, lines 53-104 *)

\* what the environment does during one call: the file system (open, scan_video)
\* and the provider capability download_best_subtitles, which raises or returns a
\* dict video -> list of subtitles (listed = the dict has an entry for the video)
NoFail == "none"
FailPoints == {"open", "scan_video"}

ProviderRaises(msg) == [raises |-> TRUE, msg |-> msg, listed |-> FALSE, subs |-> <<>>]
ProviderReturns(listed, subs) == [raises |-> FALSE, msg |-> "", listed |-> listed, subs |-> subs]

\* a subtitle object as the capability hands it back
Subtitle(code, id) ==
    [language |-> Language(code), provider_name |-> "opensubtitles", id |-> id,
     content |-> <<"srt", code, id>>]

\* tempfile.mkdtemp(): a directory that does not exist yet
mkdtemp(fs) == Cardinality(fs) + 1

\* lines 69-76: the video scanned from the dummy file, with the metadata set on it
VideoKeepsSeason(title, year, media_type, season, episode_) ==
    [title |-> title, year |-> year,
     series |-> IF media_type = episode THEN Some(title) ELSE None,
     season |-> season, episode |-> episode_]

Video(title, year, media_type, season, episode_) ==
    IF media_type = episode
    THEN [title |-> title, year |-> year, series |-> Some(title),
          season |-> season, episode |-> episode_]
    ELSE [title |-> title, year |-> year, series |-> None,
          season |-> None, episode |-> None]

\* line 80: {Language(l) for l in languages}; Language raises on an unknown code
LanguageSetFirstOnly(languages) == {Language(languages[i]) : i \in DOMAIN languages \cap {1}}

LanguageSet(languages) == {Language(languages[i]) : i \in DOMAIN languages}
LanguageError(languages) == \E i \in DOMAIN languages : languages[i] \notin Alpha3

\* lines 93-96: results[sub.language.alpha3] = sub, in iteration order
RECURSIVE OrganizeFrom(_, _)
OrganizeFrom(results, subs) ==
    IF subs = <<>> THEN results
    ELSE OrganizeFrom(DictSet(results, Head(subs).language.alpha3, Head(subs)), Tail(subs))

RECURSIVE OrganizeFirstWins(_)
OrganizeFirstWins(subs) ==
    IF subs = <<>> THEN EmptyDict
    ELSE DictSet(OrganizeFirstWins(Tail(subs)), Head(subs).language.alpha3, Head(subs))

Organize(subs) == OrganizeFrom(EmptyDict, subs)

\* the stage at which the body of the try block raises, "none" if it returns
RaisedAt(languages, env) ==
    IF env.fail \in FailPoints THEN env.fail
    ELSE IF LanguageError(languages) THEN "Language"
    ELSE IF env.provider.raises THEN "download_best_subtitles"
    ELSE NoFail

ErrorOf(stage, env) ==
    IF stage = "download_best_subtitles" THEN env.provider.msg ELSE stage

\* lines 102-103: finally: shutil.rmtree(temp_dir)
CleanupOnSuccessOnly(fs, temp_dir, stage) == IF stage = NoFail THEN fs \ {temp_dir} ELSE fs

Cleanup(fs, temp_dir, stage) == fs \ {temp_dir}

\* The whole call.  Result: raised/error (the exception re-raised at line 101),
\* results (the returned dict), fs (the directories left on disk), created (the
\* directory the call made), calls (the invocations of the provider capability).
search_and_download_subtitles(title, year, media_type, languages, providers_list, season, episode_, provider_configs, fs, env) ==
    LET temp_dir == mkdtemp(fs)
        fs1      == fs \cup {temp_dir}
        stage    == RaisedAt(languages, env)
        video    == Video(title, year, media_type, season, episode_)
        invoked  == stage \in {NoFail, "download_best_subtitles"}
        call     == [video |-> video, languages |-> LanguageSet(languages),
                     providers |-> providers_list,
                     provider_configs |-> provider_configs]
        subs     == IF env.provider.listed THEN env.provider.subs ELSE <<>>
    IN  [raised  |-> stage # NoFail,
         error   |-> ErrorOf(stage, env),
         results |-> IF stage = NoFail THEN Organize(subs) ELSE EmptyDict,
         created |-> temp_dir,
         fs      |-> Cleanup(fs1, temp_dir, stage),
         calls   |-> IF invoked THEN <<call>> ELSE <<>>]

----------------------------------------------------------------------------
(* enhance_subtitles, lines 107-155 *)

\* what openai.chat.completions.create does: it raises, or it returns a response,
\* which is a ChatCompletion object carrying the text in choices[0].message.content
\* or (a reply that is not JSON) the bare text as a str
CompletionRaises(msg) == [raises |-> TRUE, msg |-> msg, type |-> "none", text |-> <<>>]
CompletionReturns(type, text) == [raises |-> FALSE, msg |-> "", type |-> type, text |-> text]

\* lines 118-125: the prompt built around the subtitle text
Prompt(sub_content) == <<"Enhance the following subtitle text", sub_content>>

\* line 109: if not OPENROUTER_API_KEY
MissingKey(key) == key = None

\* line 140: response.strip(); only a str has the method
ResponseStrip(response) ==
    IF response.type = "str"
    THEN [raised |-> FALSE, msg |-> "", value |-> Strip(response.text)]
    ELSE [raised |-> TRUE, msg |-> "'ChatCompletion' object has no attribute 'strip'",
          value |-> <<>>]

\* lines 129-137: the requests made to the completion capability in one call
CompletionCallsWithRetry(key, sub_content, completion) ==
    LET request == [prompt |-> Prompt(sub_content), api_key |-> key]
    IN  IF MissingKey(key) THEN <<>>
        ELSE IF completion.raises THEN <<request, request>>
        ELSE <<request>>

CompletionCallsBeforeKeyCheck(key, sub_content, completion) ==
    <<[prompt |-> Prompt(sub_content), api_key |-> key]>>

CompletionCalls(key, sub_content, completion) ==
    IF MissingKey(key) THEN <<>>
    ELSE <<[prompt |-> Prompt(sub_content), api_key |-> key]>>

\* st.error(...) of the except branch, lines 152-155
EnhancementError(msg) == <<[kind |-> "error", text |-> <<"AI Enhancement Error: ", msg>>]>>

\* The whole call.  Result: returned (None or <<text>>), ui (the messages shown),
\* calls (the requests made to the completion capability).
enhance_subtitles(sub_content, key, completion) ==
    LET calls    == CompletionCalls(key, sub_content, completion)
        stripped == ResponseStrip(completion)
    IN  IF MissingKey(key)
        THEN [returned |-> None,
              ui |-> <<[kind |-> "error", text |-> <<"Missing OpenAI API key">>]>>,
              calls |-> calls]
        ELSE IF completion.raises
        THEN [returned |-> None, ui |-> EnhancementError(completion.msg), calls |-> calls]
        ELSE IF stripped.raised
        THEN [returned |-> None, ui |-> EnhancementError(stripped.msg), calls |-> calls]
        ELSE [returned |-> Some(stripped.value), ui |-> <<>>, calls |-> calls]

----------------------------------------------------------------------------
(* main(): the handlers of one script run, lines 158-321 *)

OPEN_SUBTITLES_USERNAME == None
OPEN_SUBTITLES_PASSWORD == None

\* lines 198-203
ProviderConfigs(selected_providers) ==
    IF opensubtitles \in Range(selected_providers)
    THEN opensubtitles :> [username |-> OPEN_SUBTITLES_USERNAME,
                           password |-> OPEN_SUBTITLES_PASSWORD]
    ELSE EmptyDict

\* line 208: if not title or not selected_langs or not selected_providers
MissingFieldsTitleOnly(form) == form.title = <<>>

MissingFields(form) ==
    form.title = <<>> \/ form.selected_langs = <<>> \/ form.selected_providers = <<>>

KeyOf(form) ==
    cache_key(form.title, form.media_type, form.year, form.selected_langs,
              form.selected_providers, form.season, form.episode)

\* line 218: if cache_key in st.session_state.search_cache
CacheHitNever(cache, key) == FALSE

CacheHit(cache, key) == key \in DOMAIN cache

\* lines 233-236: the except branch of the search
SearchErrorSilent(msg) == <<>>

SearchError(msg) == <<[kind |-> "error", text |-> <<"Error: ", msg>>]>>

\* a call that did not take place
NoCall == [raised |-> FALSE, error |-> NoFail, results |-> EmptyDict, created |-> 0,
           fs |-> {}, calls |-> <<>>]

\* nothing on screen: the script ran without the results block
NoClosure == [enhance_buttons |-> {}, hide_buttons |-> {}, lang |-> None, sub |-> None]

\* lines 263-321: the loop over selected_langs. It registers one enhance button per
\* language that has a result and one hide button per such language that has an
\* enhanced text; lang and sub are variables of main(), which the callback defined
\* at line 284 reads when it runs, after the loop has ended
Displayed(selected_langs, results) ==
    SelectSeq(selected_langs, LAMBDA l : l \in DOMAIN results)

Display(selected_langs, results, enhanced) ==
    LET shown == Displayed(selected_langs, results)
    IN  IF DOMAIN results = {} THEN NoClosure
        ELSE [enhance_buttons |-> Range(shown),
              hide_buttons |-> Range(shown) \cap DOMAIN enhanced,
              lang |-> IF selected_langs = <<>> THEN None
                       ELSE Some(selected_langs[Len(selected_langs)]),
              sub  |-> IF shown = <<>> THEN None ELSE Some(results[shown[Len(shown)]])]

\* line 231: st.session_state.search_cache[cache_key] = results
StoreAlone(cache, key, results) == key :> results

Store(cache, key, results) == DictSet(cache, key, results)

\* lines 233-236: the except branch writes nothing to the cache
SearchFailedStoresEmpty(cache, key) == DictSet(cache, key, EmptyDict)

SearchFailed(cache, key) == cache

\* lines 207-240: the run in which "Search Subtitles" was clicked.  Result: the
\* caches and the disk after it, and what it did.
SearchClicked(form, cache, fs, env) ==
    LET key == KeyOf(form)
        season_num  == IF form.media_type = episode THEN form.season ELSE None
        episode_num == IF form.media_type = episode THEN form.episode ELSE None
        call == search_and_download_subtitles(
                    form.title, form.year, form.media_type, form.selected_langs,
                    form.selected_providers, season_num, episode_num,
                    ProviderConfigs(form.selected_providers), fs, env)
    IN  IF MissingFields(form)
        THEN [valid |-> FALSE, key |-> None, hit |-> FALSE, agg |-> NoCall,
              cache |-> cache, fs |-> fs, results |-> EmptyDict,
              ui |-> <<[kind |-> "error", text |-> <<"Please fill all required fields">>]>>]
        ELSE IF CacheHit(cache, key)
        THEN [valid |-> TRUE, key |-> Some(key), hit |-> TRUE, agg |-> NoCall,
              cache |-> cache, fs |-> fs, results |-> cache[key],
              ui |-> IF DOMAIN cache[key] = {}
                     THEN <<[kind |-> "warning", text |-> <<"No subtitles found">>]>>
                     ELSE <<>>]
        ELSE IF call.raised
        THEN [valid |-> TRUE, key |-> Some(key), hit |-> FALSE, agg |-> call,
              cache |-> SearchFailed(cache, key), fs |-> call.fs, results |-> EmptyDict,
              ui |-> SearchError(call.error)
                       \o <<[kind |-> "warning", text |-> <<"No subtitles found">>]>>]
        ELSE [valid |-> TRUE, key |-> Some(key), hit |-> FALSE, agg |-> call,
              cache |-> Store(cache, key, call.results), fs |-> call.fs,
              results |-> call.results,
              ui |-> IF DOMAIN call.results = {}
                     THEN <<[kind |-> "warning", text |-> <<"No subtitles found">>]>>
                     ELSE <<>>]

\* line 287: sub.content.decode('utf-8'); the content is ASCII text here
Decode(content) == content

\* line 288: if enhanced
TruthyWhenNotNone(returned) == returned # None

Truthy(returned) == returned # None /\ returned[1] # <<>>

\* lines 284-294: the callback of an enhance button, run with the values lang and
\* sub have at that time
EnhanceClickedKeyedBySubtitle(lang, sub, enhanced, key, completion) ==
    LET call == enhance_subtitles(Decode(sub.content), key, completion)
    IN  [call |-> call,
         enhanced |-> IF Truthy(call.returned)
                      THEN DictSet(enhanced, <<lang, sub.id>>, call.returned[1])
                      ELSE enhanced,
         ui |-> call.ui]

EnhanceClicked(lang, sub, enhanced, key, completion) ==
    LET call == enhance_subtitles(Decode(sub.content), key, completion)
    IN  [call |-> call,
         enhanced |-> IF Truthy(call.returned)
                      THEN DictSet(enhanced, lang, call.returned[1])
                      ELSE enhanced,
         ui |-> call.ui \o
                  (IF Truthy(call.returned)
                   THEN <<[kind |-> "success", text |-> <<"AI enhancement completed successfully!">>]>>
                   ELSE <<[kind |-> "error", text |-> <<"AI enhancement failed. Please try again.">>]>>)]

\* st.button(label): True only in the run that a click on this very button caused
Button(label, clicked) == label = clicked

\* lines 318-320, inside the block of line 207: the run that a click on the
\* "Hide Enhanced" button of `lang` caused
HideClicked(lang, enhanced) ==
    IF Button("Search Subtitles", "Hide Enhanced") /\ lang \in DOMAIN enhanced
    THEN DictDel(enhanced, lang)
    ELSE enhanced

----------------------------------------------------------------------------
(* The session: what the user and the environment can do *)

MaxCache == 2     \* results a session stores at most
MaxFailed == 1    \* keys whose search failed and that are not stored, at most
MaxSubs == 2      \* subtitles the provider capability returns in a direct call
MaxText == 3      \* characters of a completion text in a direct call

\* the widgets of lines 173-195 as the user may set them; season and episode exist
\* for an episode only and are at least 1 (min_value=1)
Form(title, media_type, selected_langs, selected_providers) ==
    [title |-> title, media_type |-> media_type, year |-> 2010,
     season |-> IF media_type = episode THEN Some(1) ELSE None,
     episode |-> IF media_type = episode THEN Some(2) ELSE None,
     selected_langs |-> selected_langs, selected_providers |-> selected_providers]

SessionForms ==
    {Form(<<"a">>, movie, <<eng>>, <<opensubtitles>>),
     Form(<<"a">>, movie, <<eng, fra>>, <<opensubtitles>>),
     Form(<<"a">>, movie, <<fra, eng>>, <<opensubtitles>>),
     Form(<<"a">>, episode, <<eng, fra>>, <<podnapisi, opensubtitles>>),
     Form(<<>>, movie, <<eng>>, <<opensubtitles>>),
     Form(<<"a">>, movie, <<>>, <<opensubtitles>>),
     Form(<<"a">>, episode, <<eng>>, <<>>)}

QuietEnv == [fail |-> NoFail, provider |-> ProviderReturns(FALSE, <<>>)]

SessionEnvs ==
    {[fail |-> f, provider |-> ProviderReturns(FALSE, <<>>)] : f \in FailPoints}
    \cup {[fail |-> NoFail, provider |-> ProviderRaises("timeout")]}
    \cup {QuietEnv}
    \cup {[fail |-> NoFail, provider |-> ProviderReturns(TRUE, subs)] :
            subs \in {<<Subtitle(eng, 1)>>, <<Subtitle(eng, 1), Subtitle(fra, 1)>>}}

SessionCompletions ==
    {CompletionRaises("rate limit"),
     CompletionReturns("ChatCompletion", <<" ", "1", "\n", "H", "i", "\n">>),
     CompletionReturns("str", <<" ", "1", "\n", "H", "i", "\n">>),
     CompletionReturns("str", <<" ", "\n">>)}

Init ==
    /\ search_cache = EmptyDict
    /\ enhanced_subtitles = EmptyDict
    /\ closure = NoClosure
    /\ temp_dirs = {}
    /\ aggregated = {}
    /\ api_key \in {None, <<"k">>}
    /\ pending = [fn |-> "main"]
    /\ last = [op |-> "init"]

\* the user sets the widgets and clicks "Search Subtitles"
SearchClick ==
    \E form \in SessionForms, env \in SessionEnvs :
      /\ pending.fn = "main"
      /\ \E r \in {SearchClicked(form, search_cache, temp_dirs, env)} :
        LET agg2 == IF r.valid /\ ~r.hit THEN aggregated \cup {r.key[1]} ELSE aggregated
        IN  /\ (r.hit \/ ~r.valid) => env = QuietEnv
            /\ Cardinality(DOMAIN r.cache) <= MaxCache
            /\ Cardinality(agg2 \ DOMAIN r.cache) <= MaxFailed
            /\ search_cache' = r.cache
            /\ temp_dirs' = r.fs
            /\ aggregated' = agg2
            /\ closure' = Display(form.selected_langs, r.results, enhanced_subtitles)
            /\ last' = [op |-> "search", form |-> form, env |-> env, valid |-> r.valid,
                        key |-> r.key, hit |-> r.hit, agg |-> r.agg,
                        again |-> r.valid /\ r.key[1] \in aggregated,
                        results |-> r.results, ui |-> r.ui]
            /\ UNCHANGED <<enhanced_subtitles, api_key, pending>>

\* the user clicks an enhance button that is on screen: its callback runs, then the
\* script runs again without the results block
EnhanceClick ==
    \E button \in closure.enhance_buttons, completion \in SessionCompletions :
      \E r \in {EnhanceClicked(closure.lang[1], closure.sub[1], enhanced_subtitles,
                                api_key, completion)} :
            /\ pending.fn = "main"
            /\ r.call.calls = <<>> => completion = CompletionRaises("rate limit")
            /\ enhanced_subtitles' = r.enhanced
            /\ closure' = NoClosure
            /\ last' = [op |-> "enhance", button |-> button, lang |-> closure.lang[1],
                        sub |-> closure.sub[1], completion |-> completion,
                        call |-> r.call, ui |-> r.ui]
            /\ UNCHANGED <<search_cache, temp_dirs, aggregated, api_key, pending>>

\* the user clicks a "Hide Enhanced" button that is on screen: the script runs
\* again, and in that run "Search Subtitles" is not the button that was clicked
HideClick ==
    \E button \in closure.hide_buttons :
      /\ pending.fn = "main"
      /\ enhanced_subtitles' = HideClicked(button, enhanced_subtitles)
      /\ closure' = NoClosure
      /\ last' = [op |-> "hide", button |-> button]
      /\ UNCHANGED <<search_cache, temp_dirs, aggregated, api_key, pending>>

\* any other interaction: the script runs again without the results block
Rerun ==
    /\ pending.fn = "main"
    /\ closure' = NoClosure
    /\ last' = [op |-> "rerun"]
    /\ UNCHANGED <<search_cache, enhanced_subtitles, temp_dirs, aggregated, api_key, pending>>

Next == SearchClick \/ EnhanceClick \/ HideClick \/ Rerun

Spec == Init /\ [][Next]_vars

----------------------------------------------------------------------------
(* Direct calls of one function, with arguments drawn from bounded sets *)

Idle ==
    /\ search_cache = EmptyDict
    /\ enhanced_subtitles = EmptyDict
    /\ closure = NoClosure
    /\ aggregated = {}
    /\ last = [op |-> "init"]

\* search_and_download_subtitles(...) called once
AggSubs == {Subtitle(eng, 1), Subtitle(eng, 2), Subtitle(fra, 1), Subtitle(ita, 1)}

AggEnvs ==
    {[fail |-> f, provider |-> ProviderReturns(FALSE, <<>>)] : f \in FailPoints}
    \cup {[fail |-> NoFail, provider |-> ProviderRaises(m)] : m \in {"timeout", "bad login"}}
    \cup {QuietEnv}
    \cup {[fail |-> NoFail, provider |-> ProviderReturns(TRUE, subs)] :
            subs \in Lists(AggSubs, MaxSubs)}

AggArgs ==
    {[fn |-> "search_and_download_subtitles", title |-> <<"a">>, year |-> 2010,
      media_type |-> m, languages |-> l, providers_list |-> p,
      season |-> se[1], episode |-> se[2], env |-> e] :
        m \in {movie, episode},
        l \in {<<eng>>, <<fra>>, <<eng, fra>>, <<fra, eng>>, <<zz>>, <<eng, zz>>},
        p \in {<<>>, <<opensubtitles>>, <<podnapisi, opensubtitles>>},
        se \in {<<None, None>>, <<Some(1), Some(2)>>, <<Some(0), Some(2)>>, <<Some(1), None>>},
        e \in AggEnvs}

InitAgg ==
    /\ Idle
    /\ temp_dirs \in {{}, {1}}
    /\ api_key = None
    /\ pending \in AggArgs

CallAggregator ==
    /\ pending.fn = "search_and_download_subtitles"
    /\ last.op = "init"
    /\ \E r \in {search_and_download_subtitles(
                    pending.title, pending.year, pending.media_type, pending.languages,
                    pending.providers_list, pending.season, pending.episode,
                    ProviderConfigs(pending.providers_list), temp_dirs, pending.env)} :
          /\ temp_dirs' = r.fs
          /\ last' = [op |-> "call", before |-> temp_dirs, agg |-> r]
    /\ UNCHANGED <<search_cache, enhanced_subtitles, closure, aggregated, api_key, pending>>

NextAgg == CallAggregator

SpecAgg == InitAgg /\ [][NextAgg]_vars

\* enhance_subtitles(sub_content) called once
Texts == Lists({" ", "\n", "1", "H"}, MaxText)

EnhCompletions ==
    {CompletionRaises(m) : m \in {"rate limit", "connection error"}}
    \cup {CompletionReturns(ty, t) : ty \in {"ChatCompletion", "str"}, t \in Texts}

InitEnh ==
    /\ Idle
    /\ temp_dirs = {}
    /\ api_key \in {None, <<"k">>}
    /\ pending \in {[fn |-> "enhance_subtitles", sub_content |-> c, completion |-> co] :
                      c \in {Subtitle(eng, 1).content, Subtitle(fra, 1).content},
                      co \in EnhCompletions}

CallEnhance ==
    /\ pending.fn = "enhance_subtitles"
    /\ last.op = "init"
    /\ last' = [op |-> "call",
                call |-> enhance_subtitles(pending.sub_content, api_key, pending.completion)]
    /\ UNCHANGED <<search_cache, enhanced_subtitles, closure, temp_dirs, aggregated,
                   api_key, pending>>

NextEnh == CallEnhance

SpecEnh == InitEnh /\ [][NextEnh]_vars

\* the cache key of two requests
KeyTitles == {<<"a">>, <<"a", "_", "1">>, <<"a", "_", "e", "n", "g">>}
KeyYears == {2010, 2011}
KeyLangs == DistinctLists({eng, fra}, 2) \ {<<>>}
KeyProviders == {<<opensubtitles>>, <<opensubtitles, podnapisi>>, <<podnapisi, opensubtitles>>}
KeyEpisodes == {<<1, 2>>, <<1, 21>>, <<12, 1>>}

KeyForms ==
    {[title |-> t, media_type |-> movie, year |-> y, season |-> None, episode |-> None,
      selected_langs |-> l, selected_providers |-> p] :
        t \in KeyTitles, y \in KeyYears, l \in KeyLangs, p \in KeyProviders}
    \cup
    {[title |-> t, media_type |-> episode, year |-> y, season |-> Some(se[1]),
      episode |-> Some(se[2]), selected_langs |-> l, selected_providers |-> p] :
        t \in KeyTitles, y \in KeyYears, se \in KeyEpisodes,
        l \in KeyLangs, p \in KeyProviders}

InitKey ==
    /\ Idle
    /\ temp_dirs = {}
    /\ api_key = None
    /\ pending \in {[fn |-> "cache_key", a |-> a, b |-> b] : a \in KeyForms, b \in KeyForms}

CallCacheKey ==
    /\ pending.fn = "cache_key"
    /\ last.op = "init"
    /\ last' = [op |-> "call", keys |-> <<KeyOf(pending.a), KeyOf(pending.b)>>]
    /\ UNCHANGED <<search_cache, enhanced_subtitles, closure, temp_dirs, aggregated,
                   api_key, pending>>

NextKey == CallCacheKey

SpecKey == InitKey /\ [][NextKey]_vars

----------------------------------------------------------------------------
(* Claims *)

\* the aggregator ran in the search that `l` records
Aggregated(l) == l.op = "search" /\ l.valid /\ ~l.hit

\* C1 as stated: the aggregator is executed at most once per cache key, so a search
\* never runs it for a key it was already run for in this session.
C1_AtMostOncePerKey ==
    [][Aggregated(last') => last'.key[1] \notin aggregated]_vars

\* C1 amended: once a result set is stored under a key, every later search with
\* that key returns the stored result set, does not run the aggregator and leaves
\* the cache as it is (the aggregator returns at most once per key; a call that
\* raised stored nothing and the key may be searched again).
C1_StoredKeyNotRecomputed ==
    [][(last'.op = "search" /\ last'.valid /\ last'.key[1] \in DOMAIN search_cache)
         => /\ last'.hit
            /\ last'.agg = NoCall
            /\ last'.results = search_cache[last'.key[1]]
            /\ search_cache' = search_cache]_vars

C1_Witness ==
    /\ last.op = "search"
    /\ last.hit
    /\ DOMAIN last.results # {}
    /\ last.agg.calls = <<>>

\* C2: when search_and_download_subtitles has returned or raised, the directory
\* it created is gone and the disk holds what it held before the call.
C2_TempDirRemoved ==
    last.op = "call" /\ pending.fn = "search_and_download_subtitles"
        => last.agg.created \notin temp_dirs /\ temp_dirs = last.before

C2_Witness ==
    /\ last.op = "call"
    /\ pending.fn = "search_and_download_subtitles"
    /\ last.agg.raised
    /\ last.agg.error = "timeout"
    /\ last.before # {}

\* the collection the aggregator iterates: subtitles.get(video, [])
Returned(env) == IF env.provider.listed THEN env.provider.subs ELSE <<>>

\* C3: every language key of the result set the aggregator returns was requested.
C3_OnlyRequestedLanguages ==
    (last.op = "call" /\ pending.fn = "search_and_download_subtitles" /\ ~last.agg.raised)
        => DOMAIN last.agg.results \subseteq Range(pending.languages)

\* two requests that differ at most in the order of the languages and providers
SameRequest(a, b) ==
    /\ a.title = b.title
    /\ a.media_type = b.media_type
    /\ a.year = b.year
    /\ a.season = b.season
    /\ a.episode = b.episode
    /\ Range(a.selected_langs) = Range(b.selected_langs)
    /\ Range(a.selected_providers) = Range(b.selected_providers)

\* C4: two requests with the same title, year, kind, season, episode, the same set
\* of languages and the same set of providers have the same cache key.
C4_KeyOrderIndependent ==
    (last.op = "call" /\ pending.fn = "cache_key" /\ SameRequest(pending.a, pending.b))
        => last.keys[1] = last.keys[2]

\* the last position of a subtitle of language l in subs
LastIndex(subs, l) ==
    CHOOSE i \in DOMAIN subs :
        /\ subs[i].language.alpha3 = l
        /\ \A j \in DOMAIN subs : subs[j].language.alpha3 = l => j <= i

\* C5: the result set has exactly one entry per language of the returned
\* collection, and it is the last subtitle of that language in iteration order.
C5_LastWins ==
    (last.op = "call" /\ pending.fn = "search_and_download_subtitles" /\ ~last.agg.raised)
        => LET subs == Returned(pending.env)
           IN  /\ DOMAIN last.agg.results = {subs[i].language.alpha3 : i \in DOMAIN subs}
               /\ \A l \in DOMAIN last.agg.results :
                      last.agg.results[l] = subs[LastIndex(subs, l)]

C5_Witness ==
    /\ last.op = "call"
    /\ pending.fn = "search_and_download_subtitles"
    /\ ~last.agg.raised
    /\ Returned(pending.env) = <<Subtitle(eng, 1), Subtitle(eng, 2)>>
    /\ last.agg.results[eng] = Subtitle(eng, 2)

MissingKeyMessage == [kind |-> "error", text |-> <<"Missing OpenAI API key">>]

\* C6: without a credential enhance_subtitles returns None, reports the missing
\* key and makes no request to the completion capability.
C6_NoCredentialNoCall ==
    (last.op = "call" /\ pending.fn = "enhance_subtitles" /\ api_key = None)
        => /\ last.call.returned = None
           /\ last.call.ui = <<MissingKeyMessage>>
           /\ last.call.calls = <<>>

C6_Witness ==
    /\ last.op = "call"
    /\ pending.fn = "enhance_subtitles"
    /\ api_key = None
    /\ ~pending.completion.raises
    /\ last.call.returned = None

\* C7: with a credential and a completion returned by the capability,
\* enhance_subtitles returns the text of the completion, stripped.
C7_ReturnsTrimmedCompletion ==
    (last.op = "call" /\ pending.fn = "enhance_subtitles" /\ api_key # None
       /\ ~pending.completion.raises)
        => last.call.returned = Some(Strip(pending.completion.text))

\* C8: when the provider capability raises during a search, the aggregator raises
\* with the same message and returns no result set, and the search reports an
\* error that carries the message.
C8_ProviderErrorReported ==
    (last.op = "search" /\ last.agg.calls # <<>> /\ last.env.provider.raises)
        => /\ last.agg.raised
           /\ last.agg.error = last.env.provider.msg
           /\ last.agg.results = EmptyDict
           /\ \E i \in DOMAIN last.ui :
                  /\ last.ui[i].kind = "error"
                  /\ last.ui[i].text = <<"Error: ", last.env.provider.msg>>

C8_Witness ==
    /\ last.op = "search"
    /\ last.agg.calls # <<>>
    /\ last.env.provider.raises
    /\ last.agg.error = "timeout"

\* C9: one call of enhance_subtitles makes at most one request to the completion
\* capability; when the capability raises, the call returns None after that one
\* request and reports the message of the error.
C9_NoRetry ==
    (last.op = "call" /\ pending.fn = "enhance_subtitles")
        => /\ Len(last.call.calls) <= 1
           /\ (api_key # None /\ pending.completion.raises)
                 => /\ Len(last.call.calls) = 1
                    /\ last.call.returned = None
                    /\ \E i \in DOMAIN last.call.ui :
                           /\ last.call.ui[i].kind = "error"
                           /\ last.call.ui[i].text =
                                  <<"AI Enhancement Error: ", pending.completion.msg>>

C9_Witness ==
    /\ last.op = "call"
    /\ pending.fn = "enhance_subtitles"
    /\ api_key # None
    /\ pending.completion.raises
    /\ Len(last.call.calls) = 1

\* C10: a search with no language or no provider selected reports the missing
\* fields, does not invoke the provider capability and changes neither cache.
C10_EmptySelectionRejected ==
    [][(last'.op = "search"
          /\ (last'.form.selected_langs = <<>> \/ last'.form.selected_providers = <<>>))
         => /\ ~last'.valid
            /\ last'.agg.calls = <<>>
            /\ \E i \in DOMAIN last'.ui :
                   /\ last'.ui[i].kind = "error"
                   /\ last'.ui[i].text = <<"Please fill all required fields">>
            /\ search_cache' = search_cache
            /\ enhanced_subtitles' = enhanced_subtitles]_vars

C10_Witness ==
    /\ last.op = "search"
    /\ last.form.title # <<>>
    /\ last.form.selected_langs = <<>>
    /\ ~last.valid
    /\ DOMAIN search_cache # {}

\* C11 as stated: a call for an episode whose season or episode is missing or is
\* not a positive integer fails with an invalid-input error and does not invoke
\* the provider capability (the request being well-formed otherwise and the
\* environment not failing).
C11_EpisodeNeedsSeasonAndEpisode ==
    (/\ last.op = "call"
     /\ pending.fn = "search_and_download_subtitles"
     /\ pending.media_type = episode
     /\ Range(pending.languages) \subseteq Alpha3
     /\ pending.providers_list # <<>>
     /\ pending.env = QuietEnv
     /\ \E n \in {pending.season, pending.episode} : n = None \/ n[1] < 1)
      => /\ last.agg.raised
         /\ last.agg.error = "InvalidInput"
         /\ last.agg.calls = <<>>

ReachesProvider(args) ==
    args.env.fail \notin FailPoints /\ ~LanguageError(args.languages)

\* C13 as stated: every call of the aggregator invokes the provider capability
\* exactly once (the request being well-formed).
C13_InvokedExactlyOnce ==
    (/\ last.op = "call"
     /\ pending.fn = "search_and_download_subtitles"
     /\ Range(pending.languages) \subseteq Alpha3
     /\ pending.providers_list # <<>>)
      => Len(last.agg.calls) = 1

\* C13 amended: a call of the aggregator invokes the provider capability at most
\* once: exactly once when the call reaches it, with the set of all requested
\* languages and the whole provider list, and not at all when the call fails
\* before (writing or scanning the dummy file, converting a language code).  A
\* call whose invocation raised has made that one invocation only.
C13_InvokedAtMostOnce ==
    (last.op = "call" /\ pending.fn = "search_and_download_subtitles")
      => /\ Len(last.agg.calls) <= 1
         /\ Len(last.agg.calls) = 1 <=> ReachesProvider(pending)
         /\ ~ReachesProvider(pending) => last.agg.raised
         /\ \A i \in DOMAIN last.agg.calls :
              /\ last.agg.calls[i].languages
                   = {Language(l) : l \in Range(pending.languages)}
              /\ last.agg.calls[i].providers = pending.providers_list

C13_Witness ==
    /\ last.op = "call"
    /\ pending.fn = "search_and_download_subtitles"
    /\ pending.languages = <<eng, fra>>
    /\ pending.providers_list = <<podnapisi, opensubtitles>>
    /\ pending.env.provider.raises
    /\ last.agg.raised
    /\ Len(last.agg.calls) = 1
    /\ Cardinality(last.agg.calls[1].languages) = 2

\* C14: a stored result set stays in the result cache, unchanged, under every step
\* of the session: a later search (hit, miss or failure), an enhancement, a click
\* on "Hide Enhanced", a plain rerun.
C14_StoredResultKept ==
    [][\A k \in DOMAIN search_cache :
         k \in DOMAIN search_cache' /\ search_cache'[k] = search_cache[k]]_vars

C14_Witness ==
    /\ last.op = "search"
    /\ Aggregated(last)
    /\ ~last.agg.raised
    /\ Cardinality(DOMAIN search_cache) = 2
    /\ DOMAIN enhanced_subtitles # {}

\* C15: the enhancement cache is keyed by language code alone and is independent
\* of the result cache: every key of it is a language code, and no search,
\* whether it hits the cache, misses it, fails or is rejected, adds, changes or
\* removes an entry, so the entry stored for a language during one search is
\* still the entry of that language after a search with another cache key.
C15_EnhancedKeptBySearch ==
    [][/\ DOMAIN enhanced_subtitles' \subseteq LANGUAGES
       /\ last'.op = "search" => enhanced_subtitles' = enhanced_subtitles]_vars

C15_Witness ==
    /\ last.op = "search"
    /\ Aggregated(last)
    /\ ~last.agg.raised
    /\ DOMAIN search_cache # {last.key[1]}
    /\ \E l \in DOMAIN enhanced_subtitles : l \in closure.hide_buttons

\* C16 as stated: a click on the "Hide Enhanced" button of a language removes the
\* entry of that language from the enhancement cache and leaves the entries of
\* the other languages and the whole result cache as they are; the button exists
\* only while the language has an entry.
C16_HideRemovesEntry ==
    [][last'.op = "hide"
         => /\ last'.button \in DOMAIN enhanced_subtitles
            /\ last'.button \notin DOMAIN enhanced_subtitles'
            /\ \A l \in DOMAIN enhanced_subtitles \ {last'.button} :
                 l \in DOMAIN enhanced_subtitles'
                   /\ enhanced_subtitles'[l] = enhanced_subtitles[l]
            /\ search_cache' = search_cache]_vars

\* C17 as stated: a successful click on the enhance button of a language sends the
\* content of the subtitle of that language to the completion capability and
\* stores the text it returns under that language, also when subtitles of
\* several languages are on screen.
C17_EnhancesTheClickedLanguage ==
    [][(last'.op = "enhance" /\ Truthy(last'.call.returned))
         => /\ last'.sub.language.alpha3 = last'.button
            /\ last'.call.calls[1].prompt = Prompt(Decode(last'.sub.content))
            /\ last'.button \in DOMAIN enhanced_subtitles'
            /\ enhanced_subtitles'[last'.button] = last'.call.returned[1]
            /\ \A l \in DOMAIN enhanced_subtitles \ {last'.button} :
                 l \in DOMAIN enhanced_subtitles'
                   /\ enhanced_subtitles'[l] = enhanced_subtitles[l]]_vars

\* C18: a search whose aggregator call raised stores nothing, in neither cache;
\* and a search with a key that is not stored runs the aggregator, also when the
\* aggregator was run for that key before and failed.
C18_FailureNotCached ==
    [][/\ (Aggregated(last') /\ last'.agg.raised)
            => /\ search_cache' = search_cache
               /\ last'.key[1] \notin DOMAIN search_cache'
               /\ enhanced_subtitles' = enhanced_subtitles
       /\ (last'.op = "search" /\ last'.valid /\ last'.key[1] \notin DOMAIN search_cache)
            => /\ Aggregated(last')
               /\ last'.agg.created \in Nat \ {0}]_vars

C18_Witness ==
    /\ Aggregated(last)
    /\ last.again
    /\ ~last.agg.raised
    /\ last.key[1] \in DOMAIN search_cache
    /\ Len(last.agg.calls) = 1

\* C19: an enhancement that fails (no credential, an error of the completion
\* capability) or yields an empty text leaves the enhancement cache as it is; an
\* entry appears or changes only in the step of an enhancement that returned a
\* non-empty text, which is then the entry of the language the callback stores
\* under.
C19_OnlyNonEmptyTextStored ==
    [][/\ (last'.op = "enhance" /\ ~Truthy(last'.call.returned))
            => enhanced_subtitles' = enhanced_subtitles
       /\ \A l \in DOMAIN enhanced_subtitles' :
            (l \notin DOMAIN enhanced_subtitles
               \/ enhanced_subtitles'[l] # enhanced_subtitles[l])
              => /\ last'.op = "enhance"
                 /\ last'.call.returned # None
                 /\ last'.call.returned[1] # <<>>
                 /\ l = last'.lang
                 /\ enhanced_subtitles'[l] = last'.call.returned[1]]_vars

C19_Witness ==
    /\ last.op = "enhance"
    /\ last.call.returned = Some(<<>>)
    /\ Len(last.call.calls) = 1
    /\ last.lang \in DOMAIN enhanced_subtitles
    /\ enhanced_subtitles[last.lang] # <<>>

\* C20: two requests that differ in the title, the kind, the year, the list of
\* languages, the list of providers or, for episodes, the season or the episode
\* never have the same cache key, so the result a cache hit returns was computed
\* for a request with the same values of all of these.
C20_KeyDeterminesRequest ==
    (last.op = "call" /\ pending.fn = "cache_key" /\ last.keys[1] = last.keys[2])
        => pending.a = pending.b

C20_Witness ==
    /\ last.op = "call"
    /\ pending.fn = "cache_key"
    /\ pending.a.media_type = episode
    /\ pending.a.season = Some(1)
    /\ pending.a.episode = Some(21)
    /\ pending.b = [pending.a EXCEPT !.season = Some(12), !.episode = Some(1)]
    /\ last.keys[1] # last.keys[2]

====
